---------------------------- MODULE Spec2Model ----------------------------
(***************************************************************************)
(* A model of plot_loss.py: the log extractor parse_log_file, the chart    *)
(* renderer plot_loss and the orchestration main.                          *)
(*                                                                         *)
(* A line of the log is a sequence of one-character strings.  A float is   *)
(* the decimal value it denotes, kept exactly as [num, exp] = num/10^exp   *)
(* with trailing zeros of the fraction removed, so that two tokens denote  *)
(* the same float exactly when their values are equal.                     *)
(***************************************************************************)
EXTENDS Integers, Sequences, FiniteSets, TLC

\* Bounds of the model.
MaxLines == 2       \* lines in the log file
MaxSeries == 2      \* records in a series handed directly to plot_loss

None == "None"
NoMatch == [ok |-> FALSE]
ValueError == [err |-> TRUE, num |-> 0, exp |-> 0]

(***************************************************************************)
(* Characters and text                                                     *)
(***************************************************************************)
Digits == {"0", "1", "2", "3", "4", "5", "6", "7", "8", "9"}
DigitsDot == Digits \cup {"."}
Whitespace == {" ", "\t", "\n"}

DigitValue(c) ==
    CASE c = "0" -> 0 [] c = "1" -> 1 [] c = "2" -> 2 [] c = "3" -> 3
      [] c = "4" -> 4 [] c = "5" -> 5 [] c = "6" -> 6 [] c = "7" -> 7
      [] c = "8" -> 8 [] c = "9" -> 9

STEP == <<"s", "t", "e", "p", ":">>
SLASH == <<"/">>
VAL_LOSS == <<"v", "a", "l", "_", "l", "o", "s", "s", ":">>
SP == <<" ">>
NL == <<"\n">>

\* lit occurs in line at position i (1-based)
HasLit(line, i, lit) ==
    /\ i + Len(lit) - 1 <= Len(line)
    /\ \A k \in 1..Len(lit) : line[i + k - 1] = lit[k]

\* the position after the longest run of characters of class cls that
\* starts at position i (i itself when the run is empty)
RECURSIVE RunEnd(_, _, _)
RunEnd(line, i, cls) ==
    IF i <= Len(line) /\ line[i] \in cls THEN RunEnd(line, i + 1, cls) ELSE i

(***************************************************************************)
(* pattern = re.compile(r'step:(\d+)/(\d+)\s+val_loss:([\d.]+)')           *)
(* Every quantified class is followed by a literal outside the class (or   *)
(* ends the pattern), so a greedy run is the only way to match from a      *)
(* given start position.                                                   *)
(***************************************************************************)
MatchAt(line, i) ==
    IF ~HasLit(line, i, STEP) THEN NoMatch
    ELSE LET a1 == i + Len(STEP)
             e1 == RunEnd(line, a1, Digits)
         IN  IF e1 = a1 \/ ~HasLit(line, e1, SLASH) THEN NoMatch
             ELSE LET a2 == e1 + 1
                      e2 == RunEnd(line, a2, Digits)
                      e3 == RunEnd(line, e2, Whitespace)
                  IN  IF e2 = a2 \/ e3 = e2 \/ ~HasLit(line, e3, VAL_LOSS) THEN NoMatch
                      ELSE LET a4 == e3 + Len(VAL_LOSS)
                               e4 == RunEnd(line, a4, DigitsDot)
                           IN  IF e4 = a4 THEN NoMatch
                               ELSE [ok |-> TRUE,
                                     start |-> i,
                                     group1 |-> SubSeq(line, a1, e1 - 1),
                                     group2 |-> SubSeq(line, a2, e2 - 1),
                                     group3 |-> SubSeq(line, a4, e4 - 1),
                                     end |-> e4 - 1]

\* pattern.search(line): the match at the leftmost start position, or NoMatch
RECURSIVE SearchFrom(_, _)
SearchFrom(line, i) ==
    IF i > Len(line) THEN NoMatch
    ELSE LET m == MatchAt(line, i)
         IN  IF m.ok THEN m ELSE SearchFrom(line, i + 1)

\* a plausible slip: the last occurrence on the line instead of the first
RECURSIVE SearchBack(_, _)
SearchBack(line, i) ==
    IF i < 1 THEN NoMatch
    ELSE LET m == MatchAt(line, i)
         IN  IF m.ok THEN m ELSE SearchBack(line, i - 1)

pattern_search_last(line) == SearchBack(line, Len(line))

pattern_search(line) == SearchFrom(line, 1)

(***************************************************************************)
(* int() and float() on the matched tokens                                 *)
(***************************************************************************)
RECURSIVE int(_)
int(s) ==
    IF s = <<>> THEN 0
    ELSE 10 * int(SubSeq(s, 1, Len(s) - 1)) + DigitValue(s[Len(s)])

RECURSIVE Pow10(_)
Pow10(n) == IF n = 0 THEN 1 ELSE 10 * Pow10(n - 1)

RECURSIVE Normal(_)
Normal(v) ==
    IF v.exp > 0 /\ v.num % 10 = 0
    THEN Normal([v EXCEPT !.num = v.num \div 10, !.exp = v.exp - 1])
    ELSE v

\* float(token) for a token of [\d.]+ : ValueError unless the token has at
\* least one digit and at most one point
float(s) ==
    LET dots == {k \in 1..Len(s) : s[k] = "."}
        digs == SelectSeq(s, LAMBDA c : c \in Digits)
    IN  IF Cardinality(dots) > 1 \/ digs = <<>> THEN ValueError
        ELSE LET p == IF dots = {} THEN Len(s) ELSE CHOOSE k \in dots : TRUE
             IN  Normal([err |-> FALSE, num |-> int(digs), exp |-> Len(s) - p])

\* a <= b on float values
FloatLE(a, b) == a.num * Pow10(b.exp) <= b.num * Pow10(a.exp)


(***************************************************************************)
(* The inputs: log lines as the training run writes them, with the near    *)
(* misses and malformed tokens the pattern can meet.  Every line ends with *)
(* its newline, as iteration over a text file yields it.                   *)
(***************************************************************************)
Rec(a, b, w, d) == STEP \o a \o SLASH \o b \o w \o VAL_LOSS \o d

LineSet ==
    { \* step:100/1000 val_loss:2.3456 lr:0.001
      Rec(<<"1", "0", "0">>, <<"1", "0", "0", "0">>, SP, <<"2", ".", "3", "4", "5", "6">>)
          \o <<" ", "l", "r", ":", "0", ".", "0", "0", "1">> \o NL,
      \* epoch complete
      <<"e", "p", "o", "c", "h", " ", "c", "o", "m", "p", "l", "e", "t", "e">> \o NL,
      \* step:abc/1000 val_loss:1.0
      Rec(<<"a", "b", "c">>, <<"1", "0", "0", "0">>, SP, <<"1", ".", "0">>) \o NL,
      \* step:1/9 val_loss:.
      Rec(<<"1">>, <<"9">>, SP, <<".">>) \o NL,
      \* step:2/9 val_loss:1.2.3
      Rec(<<"2">>, <<"9">>, SP, <<"1", ".", "2", ".", "3">>) \o NL,
      \* step:5/9 val_loss:2.5 step:7/9 val_loss:1.5
      Rec(<<"5">>, <<"9">>, SP, <<"2", ".", "5">>) \o SP
          \o Rec(<<"7">>, <<"9">>, SP, <<"1", ".", "5">>) \o NL,
      \* x step:3/9 <space><tab>val_loss:0.5 lr
      <<"x", " ">> \o Rec(<<"3">>, <<"9">>, <<" ", "\t">>, <<"0", ".", "5">>)
          \o <<" ", "l", "r">> \o NL,
      \* step:3/9 val_loss:2.50 ms
      Rec(<<"3">>, <<"9">>, SP, <<"2", ".", "5", "0">>) \o <<" ", "m", "s">> \o NL,
      \* step:2/9val_loss:1.0
      Rec(<<"2">>, <<"9">>, <<>>, <<"1", ".", "0">>) \o NL,
      \* step:10/9 val_loss:3.
      Rec(<<"1", "0">>, <<"9">>, SP, <<"3", ".">>) \o NL,
      \* Step:1/9 val_loss:1.0
      <<"S", "t", "e", "p", ":">> \o <<"1">> \o SLASH \o <<"9">> \o SP \o VAL_LOSS
          \o <<"1", ".", "0">> \o NL,
      \* step:07/12 val_loss:.5
      Rec(<<"0", "7">>, <<"1", "2">>, SP, <<".", "5">>) \o NL,
      \* step:1/2 step:4/9 val_loss:7
      STEP \o <<"1">> \o SLASH \o <<"2">> \o SP
          \o Rec(<<"4">>, <<"9">>, SP, <<"7">>) \o NL }

RECURSIVE SeqsUpTo(_, _)
SeqsUpTo(S, n) ==
    IF n = 0 THEN {<<>>}
    ELSE LET shorter == SeqsUpTo(S, n - 1)
         IN  shorter \cup {Append(q, x) : q \in {r \in shorter : Len(r) = n - 1}, x \in S}

Files == SeqsUpTo(LineSet, MaxLines)

LOG_FILE == "logs/run.txt"
OutputArgs == {None, "", "plot.png"}
TitleArgs == {None, "Run A"}

\* series a caller may hand to plot_loss directly
SeriesSteps == {10, 20}
SeriesLosses == {[err |-> FALSE, num |-> 19, exp |-> 1], [err |-> FALSE, num |-> 25, exp |-> 1]}
DirectSeries ==
    {[steps |-> [k \in 1..Len(q) |-> q[k][1]],
      val_losses |-> [k \in 1..Len(q) |-> q[k][2]]] :
        q \in SeqsUpTo(SeriesSteps \X SeriesLosses, MaxSeries)}

(***************************************************************************)
(* The state                                                               *)
(***************************************************************************)
VARIABLES
    entry,        \* the function the caller invoked: "main" or "plot_loss"
    pc,           \* where control is
    path,         \* what is at the log path: "missing", "unreadable", "file"
    file,         \* the lines of the log file
    output_file,  \* args.output / plot_loss's output_file
    title,        \* args.title / plot_loss's title
    idx,          \* parse_log_file: lines of the file consumed by the loop
    steps,        \* parse_log_file: its list steps
    val_losses,   \* parse_log_file: its list val_losses
    series,       \* main's (steps, val_losses) / plot_loss's parameters
    stdout,       \* what was printed, in order
    calls,        \* the functions invoked, in order
    figure,       \* the figures created
    saved,        \* the paths images were written to
    shown,        \* the number of interactive displays opened
    exception,    \* the exception that ended the run, or None
    exit_status   \* the exit status of main: None while running, "0", "1"

vars == <<entry, pc, path, file, output_file, title, idx, steps, val_losses,
          series, stdout, calls, figure, saved, shown, exception, exit_status>>

Unset == [set |-> FALSE, steps |-> <<>>, val_losses |-> <<>>]
DEFAULT_TITLE == "Validation Loss Over Training"

Msg(m, a) == [msg |-> m, args |-> a]

Init ==
    /\ entry \in {"main", "plot_loss"}
    /\ output_file \in OutputArgs
    /\ title \in TitleArgs
    /\ IF entry = "main"
       THEN /\ pc = "main"
            /\ path \in {"missing", "unreadable", "file"}
            /\ file \in (IF path = "file" THEN Files ELSE {<<>>})
            /\ series = Unset
            /\ calls = <<"main">>
       ELSE /\ pc = "plot_loss"
            /\ path = "missing"
            /\ file = <<>>
            /\ \E d \in DirectSeries :
                  series = [set |-> TRUE, steps |-> d.steps, val_losses |-> d.val_losses]
            /\ calls = <<"plot_loss">>
    /\ idx = 0
    /\ steps = <<>>
    /\ val_losses = <<>>
    /\ stdout = <<>>
    /\ figure = <<>>
    /\ saved = <<>>
    /\ shown = 0
    /\ exception = None
    /\ exit_status = None

(***************************************************************************)
(* How control leaves a function.  main is the program: falling off its    *)
(* end is exit status 0, sys.exit(1) and an uncaught exception are 1.  A   *)
(* direct call of plot_loss returns or raises to its caller.               *)
(***************************************************************************)
Raise(e) ==
    /\ pc' = "done"
    /\ exception' = e
    /\ exit_status' = IF entry = "main" THEN "1" ELSE None

Return ==
    /\ pc' = "done"
    /\ exception' = exception
    /\ exit_status' = IF entry = "main" THEN "0" ELSE None

SysExit1 ==
    /\ pc' = "done"
    /\ exception' = exception
    /\ exit_status' = "1"

(***************************************************************************)
(* parse_log_file                                                          *)
(***************************************************************************)
\* Slips the loop body could make, each a variant of scan_line below.
\* steps.append(step) moved before float(): a failing line leaves its step
scan_line_append_early(st, vl, line) ==
    LET match == pattern_search(line)
    IN  IF ~match.ok THEN [steps |-> st, val_losses |-> vl, raised |-> FALSE]
        ELSE LET val_loss == float(match.group3)
             IN  IF val_loss.err
                 THEN [steps |-> Append(st, int(match.group1)), val_losses |-> vl,
                       raised |-> TRUE]
                 ELSE [steps |-> Append(st, int(match.group1)),
                       val_losses |-> Append(vl, val_loss),
                       raised |-> FALSE]

\* a step already seen is dropped
scan_line_dedup(st, vl, line) ==
    LET match == pattern_search(line)
    IN  IF ~match.ok THEN [steps |-> st, val_losses |-> vl, raised |-> FALSE]
        ELSE LET val_loss == float(match.group3)
             IN  IF val_loss.err
                 THEN [steps |-> st, val_losses |-> vl, raised |-> TRUE]
                 ELSE IF \E k \in 1..Len(st) : st[k] = int(match.group1)
                 THEN [steps |-> st, val_losses |-> vl, raised |-> FALSE]
                 ELSE [steps |-> Append(st, int(match.group1)),
                       val_losses |-> Append(vl, val_loss),
                       raised |-> FALSE]

\* the ValueError of float() is caught and the line skipped
scan_line_skip(st, vl, line) ==
    LET match == pattern_search(line)
    IN  IF ~match.ok THEN [steps |-> st, val_losses |-> vl, raised |-> FALSE]
        ELSE LET val_loss == float(match.group3)
             IN  IF val_loss.err
                 THEN [steps |-> st, val_losses |-> vl, raised |-> FALSE]
                 ELSE [steps |-> Append(st, int(match.group1)),
                       val_losses |-> Append(vl, val_loss),
                       raised |-> FALSE]

\* pattern.finditer instead of pattern.search: a record per occurrence
RECURSIVE ScanAll(_, _, _, _)
ScanAll(st, vl, line, from) ==
    LET match == SearchFrom(line, from)
    IN  IF ~match.ok THEN [steps |-> st, val_losses |-> vl, raised |-> FALSE]
        ELSE LET val_loss == float(match.group3)
             IN  IF val_loss.err
                 THEN [steps |-> st, val_losses |-> vl, raised |-> TRUE]
                 ELSE ScanAll(Append(st, int(match.group1)), Append(vl, val_loss),
                              line, match.end + 1)

scan_line_finditer(st, vl, line) == ScanAll(st, vl, line, 1)

\* one turn of the loop body on one line: the lists afterwards, and whether
\* float() raised
scan_line(st, vl, line) ==
    LET match == pattern_search(line)
    IN  IF ~match.ok THEN [steps |-> st, val_losses |-> vl, raised |-> FALSE]
        ELSE LET step == int(match.group1)
                 total_steps == int(match.group2)
                 val_loss == float(match.group3)
             IN  IF val_loss.err
                 THEN [steps |-> st, val_losses |-> vl, raised |-> TRUE]
                 ELSE [steps |-> Append(st, step),
                       val_losses |-> Append(vl, val_loss),
                       raised |-> FALSE]

\* steps = [], val_losses = [], open(log_file, 'r')
parse_open ==
    /\ pc = "open"
    /\ calls' = calls \o <<"parse_log_file", "open">>
    /\ steps' = <<>>
    /\ val_losses' = <<>>
    /\ idx' = 0
    /\ IF path = "file"
       THEN pc' = "scan" /\ UNCHANGED <<exception, exit_status>>
       ELSE Raise("OSError")
    /\ UNCHANGED <<entry, path, file, output_file, title, series, stdout,
                   figure, saved, shown>>

\* for line in f: ...
parse_scan_line ==
    /\ pc = "scan"
    /\ idx < Len(file)
    /\ LET r == scan_line(steps, val_losses, file[idx + 1])
       IN  /\ steps' = r.steps
           /\ val_losses' = r.val_losses
           /\ IF r.raised
              THEN idx' = idx /\ Raise("ValueError")
              ELSE idx' = idx + 1 /\ UNCHANGED <<pc, exception, exit_status>>
    /\ UNCHANGED <<entry, path, file, output_file, title, series, stdout, calls,
                   figure, saved, shown>>

\* return steps, val_losses; main binds the pair
parse_return ==
    /\ pc = "scan"
    /\ idx = Len(file)
    /\ series' = [set |-> TRUE, steps |-> steps, val_losses |-> val_losses]
    /\ pc' = "check"
    /\ UNCHANGED <<entry, path, file, output_file, title, idx, steps, val_losses,
                   stdout, calls, figure, saved, shown, exception, exit_status>>

(***************************************************************************)
(* plot_loss                                                               *)
(***************************************************************************)
\* `is not None` in place of truth
truthy_not_none(v) == v # None

\* Python truth of an optional string: None and '' are false
truthy(v) == v # None /\ v # ""

\* the guard dropped
no_data_off(st) == FALSE

\* `if not steps:` in plot_loss
no_data(st) == st = <<>>

\* the guard, plt.figure(...) and the drawing calls up to tight_layout()
plot_loss_begin ==
    /\ pc = "plot_loss"
    /\ IF no_data(series.steps)
       THEN /\ stdout' = Append(stdout, Msg("No loss data found in log file!", <<>>))
            /\ figure' = figure
            /\ Return
       ELSE IF Len(series.steps) # Len(series.val_losses)
       THEN \* plt.plot rejects x and y of different lengths
            /\ figure' = Append(figure, [x |-> <<>>, y |-> <<>>, title |-> None])
            /\ stdout' = stdout
            /\ Raise("ValueError")
       ELSE /\ figure' = Append(figure,
                           [x |-> series.steps, y |-> series.val_losses,
                            title |-> IF truthy(title) THEN title ELSE DEFAULT_TITLE])
            /\ stdout' = stdout
            /\ pc' = "output"
            /\ UNCHANGED <<exception, exit_status>>
    /\ UNCHANGED <<entry, path, file, output_file, title, idx, steps, val_losses,
                   series, calls, saved, shown>>

\* a failed write caught and ignored: plot_loss returns as if it had saved
plot_loss_output_swallow ==
    /\ pc = "output"
    /\ IF truthy(output_file)
       THEN /\ calls' = Append(calls, "savefig")
            /\ shown' = shown
            /\ \E written \in BOOLEAN :
                  /\ saved' = IF written THEN Append(saved, output_file) ELSE saved
                  /\ stdout' = Append(stdout, Msg("Plot saved to", <<output_file>>))
                  /\ Return
       ELSE /\ calls' = Append(calls, "show")
            /\ shown' = shown + 1
            /\ saved' = saved
            /\ stdout' = stdout
            /\ Return
    /\ UNCHANGED <<entry, path, file, output_file, title, idx, steps, val_losses,
                   series, figure>>

\* plt.savefig(output_file, dpi=150), which the file system may refuse, or
\* plt.show(); then plot_loss returns
plot_loss_output ==
    /\ pc = "output"
    /\ IF truthy(output_file)
       THEN /\ calls' = Append(calls, "savefig")
            /\ shown' = shown
            /\ \E written \in BOOLEAN :
                  IF written
                  THEN /\ saved' = Append(saved, output_file)
                       /\ stdout' = Append(stdout, Msg("Plot saved to", <<output_file>>))
                       /\ Return
                  ELSE /\ saved' = saved
                       /\ stdout' = stdout
                       /\ Raise("OSError")
       ELSE /\ calls' = Append(calls, "show")
            /\ shown' = shown + 1
            /\ saved' = saved
            /\ stdout' = stdout
            /\ Return
    /\ UNCHANGED <<entry, path, file, output_file, title, idx, steps, val_losses,
                   series, figure>>

(***************************************************************************)
(* main                                                                    *)
(***************************************************************************)
\* the existence check dropped
path_exists_always(p) == TRUE

\* log_path.exists()
path_exists(p) == p # "missing"

\* the no-data check dropped
main_no_data_off(st) == FALSE

\* `if not steps:` in main
main_no_data(st) == st = <<>>

\* min() and max() fold the list from its first element
RECURSIVE FoldMin(_, _, _)
FoldMin(s, k, best) ==
    IF k > Len(s) THEN best
    ELSE FoldMin(s, k + 1, IF s[k] < best THEN s[k] ELSE best)

RECURSIVE FoldMax(_, _, _)
FoldMax(s, k, best) ==
    IF k > Len(s) THEN best
    ELSE FoldMax(s, k + 1, IF s[k] > best THEN s[k] ELSE best)

RECURSIVE FoldFloatMin(_, _, _)
FoldFloatMin(s, k, best) ==
    IF k > Len(s) THEN best
    ELSE FoldFloatMin(s, k + 1, IF ~FloatLE(best, s[k]) THEN s[k] ELSE best)

RECURSIVE FoldFloatMax(_, _, _)
FoldFloatMax(s, k, best) ==
    IF k > Len(s) THEN best
    ELSE FoldFloatMax(s, k + 1, IF ~FloatLE(s[k], best) THEN s[k] ELSE best)

\* the first and last element in place of min and max
summary_stats_ends(st, vl) ==
    << Msg("Found", <<Len(st)>>),
       Msg("Steps", <<st[1], st[Len(st)]>>),
       Msg("Loss range", <<vl[1], vl[Len(vl)]>>) >>

\* the three summary lines; each is recorded with the values it formats
summary_stats(st, vl) ==
    << Msg("Found", <<Len(st)>>),
       Msg("Steps", <<FoldMin(st, 2, st[1]), FoldMax(st, 2, st[1])>>),
       Msg("Loss range", <<FoldFloatMin(vl, 2, vl[1]), FoldFloatMax(vl, 2, vl[1])>>) >>

\* log_path = Path(args.log_file); the existence check
main_check_path ==
    /\ pc = "main"
    /\ calls' = Append(calls, "exists")
    /\ IF path_exists(path)
       THEN /\ stdout' = Append(stdout, Msg("Parsing log file", <<LOG_FILE>>))
            /\ pc' = "open"
            /\ UNCHANGED <<exception, exit_status>>
       ELSE /\ stdout' = Append(stdout, Msg("Error: Log file not found", <<LOG_FILE>>))
            /\ SysExit1
    /\ UNCHANGED <<entry, path, file, output_file, title, idx, steps, val_losses,
                   series, figure, saved, shown>>

\* the no-data check, the summary and the call of plot_loss
main_check_data ==
    /\ pc = "check"
    /\ IF main_no_data(series.steps)
       THEN /\ stdout' = stdout \o
                 << Msg("No validation loss data found in the log file.", <<>>),
                    Msg("Make sure the training has run validation steps.", <<>>) >>
            /\ calls' = calls
            /\ SysExit1
       ELSE IF series.steps = <<>> \/ series.val_losses = <<>>
       THEN \* min() of an empty list raises after the count was printed
            /\ stdout' = Append(stdout, Msg("Found", <<Len(series.steps)>>))
            /\ calls' = calls
            /\ Raise("ValueError")
       ELSE /\ stdout' = stdout \o summary_stats(series.steps, series.val_losses)
            /\ calls' = Append(calls, "plot_loss")
            /\ pc' = "plot_loss"
            /\ UNCHANGED <<exception, exit_status>>
    /\ UNCHANGED <<entry, path, file, output_file, title, idx, steps, val_losses,
                   series, figure, saved, shown>>

Next ==
    \/ main_check_path
    \/ parse_open
    \/ parse_scan_line
    \/ parse_return
    \/ main_check_data
    \/ plot_loss_begin
    \/ plot_loss_output

Spec == Init /\ [][Next]_vars

(***************************************************************************)
(* The log format, stated on its own: an occurrence of the record text     *)
(* step:<int>/<int><whitespace>val_loss:<digits and points> is a span of   *)
(* the line that splits into these parts.                                  *)
(***************************************************************************)
AllIn(line, a, b, cls) == a <= b /\ \A k \in a..b : line[k] \in cls

OccurrencesIn(line) ==
    LET n == Len(line)
        ws == Len(STEP)
        wv == Len(VAL_LOSS)
    IN  UNION { UNION { UNION { UNION {
          { [start |-> i,
             a |-> SubSeq(line, i + ws, e1),
             b |-> SubSeq(line, e1 + 2, e2),
             d |-> SubSeq(line, e3 + wv + 1, j),
             end |-> j] :
               j \in {e \in (e3 + wv + 1)..n : AllIn(line, e3 + wv + 1, e, DigitsDot)} } :
            e3 \in {e \in (e2 + 1)..n : AllIn(line, e2 + 1, e, Whitespace)
                                         /\ HasLit(line, e + 1, VAL_LOSS)} } :
            e2 \in {e \in (e1 + 2)..n : AllIn(line, e1 + 2, e, Digits)} } :
            e1 \in {e \in (i + ws)..n : AllIn(line, i + ws, e, Digits)
                                        /\ HasLit(line, e + 1, SLASH)} } :
            i \in {k \in 1..n : HasLit(line, k, STEP)} }

\* the occurrences of each line of the input, computed once
OccurrenceTable == [l \in LineSet |-> OccurrencesIn(l)]

Occurrences(line) == OccurrenceTable[line]

Matches(line) == Occurrences(line) # {}

\* the occurrence a leftmost, greedy search reports
LeftmostTable ==
    [l \in {m \in LineSet : OccurrencesIn(m) # {}} |->
        CHOOSE o \in OccurrencesIn(l) :
            \A q \in OccurrencesIn(l) :
                o.start < q.start \/ (o.start = q.start /\ o.end >= q.end)]

Leftmost(line) == LeftmostTable[line]

DotsOf(d) == Cardinality({k \in 1..Len(d) : d[k] = "."})
DigitsOf(d) == SelectSeq(d, LAMBDA c : c \in Digits)

\* digits with a single decimal point
IsDecimal(d) == DotsOf(d) = 1 /\ DigitsOf(d) # <<>>

\* a token that denotes a number: digits with at most one point
IsNumber(d) == DotsOf(d) <= 1 /\ DigitsOf(d) # <<>>

\* the fraction digits of a number token
FracLen(d) ==
    IF DotsOf(d) = 0 THEN 0 ELSE Len(d) - (CHOOSE k \in 1..Len(d) : d[k] = ".")

\* v is the float of value (digits of d) / 10^(fraction digits of d)
HasValue(v, d) ==
    /\ ~v.err
    /\ v.num * Pow10(FracLen(d)) = int(DigitsOf(d)) * Pow10(v.exp)

Range(s) == {s[k] : k \in DOMAIN s}
Called(f) == \E k \in DOMAIN calls : calls[k] = f
Printed(k, m, a) == k \in DOMAIN stdout /\ stdout[k].msg = m /\ stdout[k].args = a

\* the lines among the first n of the file that carry a record
MatchingUpTo(n) == {k \in 1..n : Matches(file[k])}

\* the line the j-th record comes from
LineOfRecord(j) ==
    CHOOSE k \in MatchingUpTo(Len(file)) : Cardinality(MatchingUpTo(k)) = j

\* st, vl are the records of the first n lines, one per matching line, in
\* line order
IsRecordsOf(st, vl, n) ==
    /\ Len(st) = Cardinality(MatchingUpTo(n))
    /\ Len(vl) = Cardinality(MatchingUpTo(n))
    /\ \A j \in 1..Len(st) :
          LET o == Leftmost(file[LineOfRecord(j)])
          IN  st[j] = int(o.a) /\ HasValue(vl[j], o.d)

Scanning == entry = "main" /\ Called("open") /\ path = "file"

(***************************************************************************)
(* C1: in parse_log_file, after every line the loop has processed and on   *)
(* return, steps and val_losses have the same length; the returned pair is *)
(* both empty or both non-empty.                                           *)
(***************************************************************************)
C1_Alignment ==
    /\ Len(steps) = Len(val_losses)
    /\ (entry = "main" /\ series.set) =>
          /\ Len(series.steps) = Len(series.val_losses)
          /\ (series.steps = <<>>) <=> (series.val_losses = <<>>)

C1_Witness ==
    /\ entry = "main" /\ pc = "check"
    /\ Len(file) = 2 /\ Len(series.steps) = 1 /\ Len(series.val_losses) = 1

(***************************************************************************)
(* C2: when every matching line parses, the returned pair is exactly the   *)
(* records of the matching lines in file order: a line that does not match *)
(* changes neither list and raises nothing, the i-th step and loss come    *)
(* from the same line, duplicates and out-of-order steps are kept.         *)
(***************************************************************************)
C2_RecordsInOrder ==
    Scanning =>
        /\ IsRecordsOf(steps, val_losses, idx)
        /\ series.set => /\ idx = Len(file)
                         /\ IsRecordsOf(series.steps, series.val_losses, Len(file))
        /\ exception = "ValueError" => Matches(file[idx + 1])

C2_Witness ==
    /\ entry = "main" /\ series.set
    /\ Len(file) = 2 /\ ~Matches(file[1]) /\ Matches(file[2])
    /\ Len(series.steps) = 1

C2_WitnessDuplicate ==
    /\ entry = "main" /\ series.set
    /\ Len(series.steps) = 2 /\ series.steps[1] = series.steps[2]

(***************************************************************************)
(* C10: each line contributes at most one record; a line with two or more  *)
(* occurrences of the pattern contributes exactly one, from the leftmost;  *)
(* after any prefix of the scan the number of records is at most the       *)
(* number of lines read and equals the number of matching lines.           *)
(***************************************************************************)
StartsOf(line) == {o.start : o \in Occurrences(line)}

C10_OneRecordPerLine ==
    Scanning =>
        /\ Len(steps) <= idx
        /\ Len(steps) = Cardinality(MatchingUpTo(idx))
        /\ \A k \in MatchingUpTo(idx) :
              Cardinality(StartsOf(file[k])) >= 2 =>
                 LET j == Cardinality(MatchingUpTo(k))
                     o == Leftmost(file[k])
                 IN  /\ Cardinality(MatchingUpTo(k - 1)) = j - 1
                     /\ steps[j] = int(o.a)
                     /\ HasValue(val_losses[j], o.d)

C10_Witness ==
    /\ Scanning /\ pc = "scan" /\ idx = 1
    /\ Cardinality(StartsOf(file[1])) = 2
    /\ Len(steps) = 1

(***************************************************************************)
(* C3, as claimed: for every line that contains an occurrence              *)
(* step:<int>/<int><whitespace>val_loss:<decimal>, <decimal> digits with a *)
(* single point, the loop appends (first integer, that decimal) whatever   *)
(* text precedes or follows the occurrence, and does not fail.             *)
(***************************************************************************)
ExtractsFrom(o) ==
    /\ steps' = Append(steps, int(o.a))
    /\ Len(val_losses') = Len(val_losses) + 1
    /\ SubSeq(val_losses', 1, Len(val_losses)) = val_losses
    /\ HasValue(val_losses'[Len(val_losses')], o.d)
    /\ exception' = None

C3_AnySurroundingText ==
    [][(pc = "scan" /\ idx < Len(file)) =>
          \A o \in Occurrences(file[idx + 1]) :
              IsDecimal(o.d) => ExtractsFrom(o)]_vars

(***************************************************************************)
(* C3, amended: the same, for the occurrence that no other occurrence      *)
(* precedes on the line and that is not followed by a digit or a point.    *)
(* The text before it and the text after it change neither the step nor    *)
(* the loss and cause no failure; the second integer is never the step.    *)
(***************************************************************************)
IsFirst(line, o) == \A q \in Occurrences(line) : o.start <= q.start
EndsToken(line, o) == o.end = Len(line) \/ line[o.end + 1] \notin DigitsDot

C3_SurroundingTextIgnored ==
    [][(pc = "scan" /\ idx < Len(file)) =>
          \A o \in Occurrences(file[idx + 1]) :
              (IsDecimal(o.d) /\ IsFirst(file[idx + 1], o) /\ EndsToken(file[idx + 1], o))
                  => ExtractsFrom(o)]_vars

C3_Witness ==
    /\ Scanning /\ pc = "scan" /\ idx >= 1
    /\ \E o \in Occurrences(file[idx]) :
          /\ IsDecimal(o.d) /\ IsFirst(file[idx], o) /\ EndsToken(file[idx], o)
          /\ o.start > 1 /\ o.end + 1 < Len(file[idx])
          /\ int(o.a) # int(o.b)
          /\ Len(steps) >= 1 /\ steps[Len(steps)] = int(o.a)

(***************************************************************************)
(* C4: a line that matches the pattern but whose val_loss token is not a   *)
(* number fails the whole extraction: nothing is substituted, no record is *)
(* appended for the line, the scan does not go on past it, no series is    *)
(* returned to main, and the renderer is never invoked.                    *)
(***************************************************************************)
Unparsable(line) == Matches(line) /\ ~IsNumber(Leftmost(line).d)

C4_MalformedTokenFails ==
    Scanning =>
       \A k \in 1..Len(file) :
          Unparsable(file[k]) =>
             /\ idx < k
             /\ (idx = k - 1 /\ pc # "scan") =>
                   /\ pc = "done"
                   /\ exception = "ValueError"
                   /\ exit_status = "1"
                   /\ ~series.set
                   /\ Len(steps) = Cardinality(MatchingUpTo(k - 1))
                   /\ Len(val_losses) = Cardinality(MatchingUpTo(k - 1))
                   /\ ~Called("plot_loss")
                   /\ figure = <<>> /\ saved = <<>> /\ shown = 0

C4_Witness ==
    /\ Scanning /\ pc = "done" /\ exception = "ValueError"
    /\ idx = 1 /\ Len(steps) = 1
    /\ DotsOf(Leftmost(file[2]).d) = 2

(***************************************************************************)
(* C5: in main, when the path exists but zero records were extracted, the  *)
(* run prints the no-data diagnostic and ends with exit status 1 without   *)
(* invoking plot_loss and without printing summary statistics; main only   *)
(* ever calls the renderer with a non-empty series.                        *)
(***************************************************************************)
C5_NoDataExits ==
    entry = "main" =>
       /\ (series.set /\ series.steps = <<>>) =>
             /\ pc \in {"check", "done"}
             /\ ~Called("plot_loss")
             /\ figure = <<>> /\ saved = <<>> /\ shown = 0
             /\ \A k \in DOMAIN stdout :
                   stdout[k].msg \notin {"Found", "Steps", "Loss range"}
             /\ pc = "done" =>
                   /\ exit_status = "1"
                   /\ Len(stdout) = 3
                   /\ Printed(2, "No validation loss data found in the log file.", <<>>)
                   /\ Printed(3, "Make sure the training has run validation steps.", <<>>)
       /\ Called("plot_loss") => (series.set /\ series.steps # <<>>)

C5_Witness ==
    /\ entry = "main" /\ pc = "done" /\ series.set /\ series.steps = <<>>
    /\ Len(file) = 2 /\ exit_status = "1"

(***************************************************************************)
(* C6: in main, when the log path does not exist, the run prints a         *)
(* diagnostic naming the path and ends with exit status 1 before the       *)
(* extractor is invoked: no file is opened, no renderer is invoked, no     *)
(* output is written; the existence check always precedes parse_log_file.  *)
(***************************************************************************)
C6_MissingPathExits ==
    entry = "main" =>
       /\ (path = "missing" /\ pc # "main") =>
             /\ pc = "done"
             /\ exit_status = "1"
             /\ exception = None
             /\ Len(stdout) = 1
             /\ Printed(1, "Error: Log file not found", <<LOG_FILE>>)
             /\ calls = <<"main", "exists">>
             /\ figure = <<>> /\ saved = <<>> /\ shown = 0
       /\ \A k \in DOMAIN calls :
             calls[k] = "parse_log_file" => \E j \in 1..(k - 1) : calls[j] = "exists"

C6_Witness ==
    entry = "main" /\ path = "missing" /\ pc = "done" /\ exit_status = "1"

(***************************************************************************)
(* C7: a run of main ends with exit status 0 if and only if at least one   *)
(* record was extracted and the chart was produced, saved or displayed:    *)
(* never when the path is missing, no record was extracted, extraction     *)
(* failed or the image could not be written; and before the renderer is    *)
(* invoked the summary (count, min and max step, min and max loss) has     *)
(* been printed.                                                           *)
(***************************************************************************)
IsLeast(v, s) == v \in Range(s) /\ \A w \in Range(s) : v <= w
IsGreatest(v, s) == v \in Range(s) /\ \A w \in Range(s) : w <= v
IsLeastLoss(v, s) == v \in Range(s) /\ \A w \in Range(s) : FloatLE(v, w)
IsGreatestLoss(v, s) == v \in Range(s) /\ \A w \in Range(s) : FloatLE(w, v)

ChartProduced ==
    /\ Len(figure) = 1
    /\ \/ saved = <<output_file>> /\ shown = 0
       \/ saved = <<>> /\ shown = 1

SummaryPrinted ==
    /\ Len(stdout) >= 4
    /\ Printed(2, "Found", <<Len(series.steps)>>)
    /\ stdout[3].msg = "Steps"
    /\ IsLeast(stdout[3].args[1], series.steps)
    /\ IsGreatest(stdout[3].args[2], series.steps)
    /\ stdout[4].msg = "Loss range"
    /\ IsLeastLoss(stdout[4].args[1], series.val_losses)
    /\ IsGreatestLoss(stdout[4].args[2], series.val_losses)

C7_ExitZeroIffChart ==
    entry = "main" =>
       /\ pc # "done" => exit_status = None
       /\ pc = "done" =>
             /\ exit_status \in {"0", "1"}
             /\ exit_status = "0" <=>
                   (series.set /\ Len(series.steps) >= 1 /\ ChartProduced)
             /\ exit_status = "0" =>
                   (path = "file" /\ exception = None /\ idx = Len(file))
             /\ exception # None => exit_status = "1"
       /\ Called("plot_loss") => SummaryPrinted

C7_Witness ==
    /\ entry = "main" /\ pc = "done" /\ exit_status = "0"
    /\ saved = <<"plot.png">>
    /\ Len(series.steps) = 2 /\ series.steps[1] > series.steps[2]
    /\ ~FloatLE(series.val_losses[2], series.val_losses[1])

C7_WitnessWriteFailure ==
    /\ entry = "main" /\ pc = "done" /\ exit_status = "1"
    /\ Called("savefig") /\ exception = "OSError"

(***************************************************************************)
(* C8: plot_loss called with an empty series, whatever output_file and     *)
(* title are, reports that there is no data and returns normally: no       *)
(* figure is created, no file written, no display opened, nothing raised.  *)
(***************************************************************************)
C8_EmptySeriesNoOp ==
    (Called("plot_loss") /\ series.steps = <<>> /\ pc # "plot_loss") =>
        /\ pc = "done"
        /\ exception = None
        /\ Len(stdout) >= 1
        /\ Printed(Len(stdout), "No loss data found in log file!", <<>>)
        /\ figure = <<>> /\ saved = <<>> /\ shown = 0
        /\ ~Called("savefig") /\ ~Called("show")

C8_Witness ==
    /\ entry = "plot_loss" /\ pc = "done" /\ series.steps = <<>>
    /\ output_file = "plot.png" /\ title # None

(***************************************************************************)
(* C9, as claimed: plot_loss called with a non-empty series does exactly   *)
(* one of two things: for every given output_file one image is written to  *)
(* it and no display is opened; with output_file absent the display is     *)
(* opened and nothing is written.  Never both, never neither.              *)
(***************************************************************************)
PlotLossDone == Called("plot_loss") /\ series.steps # <<>> /\ pc = "done"

C9_ExactlyOneOutput ==
    PlotLossDone =>
        IF output_file # None
        THEN saved = <<output_file>> /\ shown = 0
        ELSE saved = <<>> /\ shown = 1

(***************************************************************************)
(* C9, amended: with an output_file that is given and not the empty string *)
(* no display is opened and the image is written once to that path, unless *)
(* the write fails, in which case nothing is written and the failure       *)
(* propagates; with output_file absent or empty the display is opened once *)
(* and nothing is written.  The two outputs never both occur.              *)
(***************************************************************************)
C9_OneOutputUnlessWriteFails ==
    /\ Len(saved) + shown <= 1
    /\ PlotLossDone =>
          IF output_file \notin {None, ""}
          THEN /\ shown = 0
               /\ ~Called("show")
               /\ exception = None => saved = <<output_file>>
               /\ exception # None => (saved = <<>> /\ exception = "OSError")
          ELSE /\ shown = 1
               /\ saved = <<>>
               /\ ~Called("savefig")
               /\ exception = None

C9_Witness ==
    /\ PlotLossDone /\ entry = "plot_loss"
    /\ saved = <<"plot.png">> /\ shown = 0 /\ Len(figure) = 1

C9_WitnessEmptyPath ==
    PlotLossDone /\ output_file = "" /\ shown = 1 /\ saved = <<>>

=============================================================================
